---- MODULE Spec2Model ----
(***************************************************************************)
(* Model of the WhatsApp group inventory bot (src/app.py).                 *)
(*                                                                         *)
(* Texts are sequences of one-character strings so that the string         *)
(* operations the handler relies on (lower, strip, startswith, split,      *)
(* int) are computed, not assumed.  The Firestore collections are          *)
(* functions from document id to the fields the code reads.                *)
(***************************************************************************)
EXTENDS Integers, Sequences, FiniteSets, TLC

(***************************************************************************)
(* Bounds of the model                                                     *)
(***************************************************************************)
MaxLog == 3
MaxQty == 20
\* the number of requests the server handles at the same time
MaxThreads == 2

(***************************************************************************)
(* Python string operations                                                *)
(***************************************************************************)
UpperCase == <<"A","B","C","D","E","F","G","H","I","J","K","L","M",
               "N","O","P","Q","R","S","T","U","V","W","X","Y","Z">>
LowerCase == <<"a","b","c","d","e","f","g","h","i","j","k","l","m",
               "n","o","p","q","r","s","t","u","v","w","x","y","z">>
Digits == <<"0","1","2","3","4","5","6","7","8","9">>

\* code-point order of the characters the model uses (for sorted())
CharTable == <<" ", ",", "-">> \o Digits \o <<"=">> \o UpperCase \o LowerCase

Range(s) == { s[i] : i \in DOMAIN s }

PosIn(c, tab) == CHOOSE i \in DOMAIN tab : tab[i] = c

Code(c) == PosIn(c, CharTable)

\* str.lower(), one character
LowerChar(c) == IF c \in Range(UpperCase) THEN LowerCase[PosIn(c, UpperCase)] ELSE c

\* str.lower()
Lower(s) == [i \in DOMAIN s |-> LowerChar(s[i])]

RECURSIVE LStrip(_)
LStrip(s) == IF s # <<>> /\ Head(s) = " " THEN LStrip(Tail(s)) ELSE s

RECURSIVE RStrip(_)
RStrip(s) == IF s # <<>> /\ s[Len(s)] = " " THEN RStrip(SubSeq(s, 1, Len(s) - 1)) ELSE s

\* str.strip()
Strip(s) == RStrip(LStrip(s))

\* str.startswith(p)
StartsWith(s, p) == Len(s) >= Len(p) /\ SubSeq(s, 1, Len(p)) = p

\* s[n:]
DropFirst(s, n) == SubSeq(s, n + 1, Len(s))

\* c in s
Contains(s, c) == c \in Range(s)

\* position of the first c in s (s contains c)
FirstIndex(s, c) == CHOOSE i \in DOMAIN s : s[i] = c /\ \A j \in 1..(i - 1) : s[j] # c

\* s.split(c, 1) for s containing c
SplitFirst(s, c) ==
    LET i == FirstIndex(s, c)
    IN  <<SubSeq(s, 1, i - 1), SubSeq(s, i + 1, Len(s))>>

\* s.split(c)
RECURSIVE SplitAll(_, _)
SplitAll(s, c) ==
    IF Contains(s, c)
    THEN LET p == SplitFirst(s, c) IN <<p[1]>> \o SplitAll(p[2], c)
    ELSE <<s>>

RECURSIVE DigitsValue(_)
DigitsValue(s) ==
    IF s = <<>> THEN 0
    ELSE 10 * DigitsValue(SubSeq(s, 1, Len(s) - 1)) + (PosIn(s[Len(s)], Digits) - 1)

\* a parse that stops at the first character that is no digit
RECURSIVE DigitPrefix(_)
DigitPrefix(s) ==
    IF s # <<>> /\ Head(s) \in Range(Digits) THEN <<Head(s)>> \o DigitPrefix(Tail(s)) ELSE <<>>

ParseInt_prefix(s) ==
    LET body == DigitPrefix(Strip(s))
    IN  IF body = <<>> THEN [ok |-> FALSE, val |-> 0]
        ELSE [ok |-> TRUE, val |-> DigitsValue(body)]

\* int(s): surrounding whitespace allowed, optional sign, at least one digit;
\* anything else raises ValueError (ok = FALSE)
ParseInt(s) ==
    LET t == Strip(s)
        signed == t # <<>> /\ Head(t) \in {"-", "+"}
        body == IF signed THEN Tail(t) ELSE t
        good == body # <<>> /\ \A i \in DOMAIN body : body[i] \in Range(Digits)
    IN  IF ~good THEN [ok |-> FALSE, val |-> 0]
        ELSE [ok |-> TRUE,
              val |-> IF signed /\ Head(t) = "-" THEN 0 - DigitsValue(body)
                      ELSE DigitsValue(body)]

\* a < b for str (lexicographic by code point)
RECURSIVE StrLess(_, _)
StrLess(a, b) ==
    IF b = <<>> THEN FALSE
    ELSE IF a = <<>> THEN TRUE
    ELSE IF Head(a) # Head(b) THEN Code(Head(a)) < Code(Head(b))
    ELSE StrLess(Tail(a), Tail(b))

\* sorted(d.items()) for a dict d with str keys
RECURSIVE SortedItems(_)
SortedItems(d) ==
    IF DOMAIN d = {} THEN <<>>
    ELSE LET k == CHOOSE x \in DOMAIN d : \A y \in DOMAIN d \ {x} : StrLess(x, y)
         IN  <<<<k, d[k]>>>> \o SortedItems([y \in DOMAIN d \ {k} |-> d[y]])

(***************************************************************************)
(* Configuration and inputs                                                *)
(***************************************************************************)
Admin1 == "9779816034951"

\* GROUP_ADMINS: phone number -> display name
GROUP_ADMINS == [p \in {Admin1} |-> <<"Admin User 1">>]

\* the phone numbers that send messages to the bot
Senders == {Admin1, "9800000001"}

\* sender_number[-4:]
Last4(p) == CASE p = Admin1 -> "4951"
              [] p = "9800000001" -> "0001"
              [] p = "9800000002" -> "0002"

\* GROUP_ADMINS.get(sender_number, f"User {sender_number[-4:]}")
SenderName(p) == IF p \in DOMAIN GROUP_ADMINS THEN GROUP_ADMINS[p] ELSE <<"User", Last4(p)>>

\* an admin check that lets everybody through
is_group_admin_any(p) == TRUE

is_group_admin(p) == p \in DOMAIN GROUP_ADMINS

\* Python's None and a present value, for optional fields
None == <<>>
Some(x) == <<x>>

\* the environment of one command: the store calls that raise, and the
\* recipients whose outbound send fails
NoFault == [fail |-> {}, down |-> {}]

HistoryLimit == 8

(***************************************************************************)
(* State                                                                   *)
(***************************************************************************)
VARIABLES
    inventory,          \* collection 'inventory': item name -> quantity field
    group_members,      \* collection 'group_members': phone -> [is_active]
    inventory_updates,  \* collection 'inventory_updates', in append order
    last,               \* the message handled last: [sender, cmd]
    reply,              \* what process_group_inventory_command returned for it
    notified,           \* the numbers broadcast_to_group addressed for it
    before,             \* the three collections when that message arrived
    threads,            \* the requests in flight: thread -> its position and locals
    faults,             \* the store calls and sends that failed for that message
    http                \* the last webhook request and its response

vars == <<inventory, group_members, inventory_updates, last, reply, notified, before,
          threads, faults, http>>

Put(fn, k, v) == [x \in (DOMAIN fn) \cup {k} |-> IF x = k THEN v ELSE fn[x]]
Del(fn, k) == [x \in (DOMAIN fn) \ {k} |-> fn[x]]

(***************************************************************************)
(* FirebaseManager                                                         *)
(***************************************************************************)
\* a write that replaces the collection by the one document
add_group_member_replace(gm, p, env) ==
    IF "add_group_member" \in env.fail
    THEN [ok |-> FALSE, gm |-> gm]
    ELSE [ok |-> TRUE, gm |-> (p :> [is_active |-> TRUE])]

add_group_member(gm, p, env) ==
    IF "add_group_member" \in env.fail
    THEN [ok |-> FALSE, gm |-> gm]
    ELSE [ok |-> TRUE, gm |-> Put(gm, p, [is_active |-> TRUE])]

is_group_member(gm, p, env) ==
    IF "is_group_member" \in env.fail THEN FALSE
    ELSE IF p \in DOMAIN gm THEN gm[p].is_active
    ELSE FALSE

\* update() raises when the document does not exist
remove_group_member(gm, p, env) ==
    IF "remove_group_member" \in env.fail \/ p \notin DOMAIN gm
    THEN [ok |-> FALSE, gm |-> gm]
    ELSE [ok |-> TRUE, gm |-> Put(gm, p, [is_active |-> FALSE])]

\* the phone numbers of the active members
get_group_members(gm, env) ==
    IF "get_group_members" \in env.fail THEN {}
    ELSE { p \in DOMAIN gm : gm[p].is_active }

\* a write that adds to the stored quantity instead of replacing it
update_inventory_merge(inv, item, q, env) ==
    IF "update_inventory" \in env.fail
    THEN [ok |-> FALSE, inv |-> inv]
    ELSE [ok |-> TRUE,
          inv |-> Put(inv, item, (IF item \in DOMAIN inv THEN inv[item] ELSE 0) + q)]

update_inventory(inv, item, q, env) ==
    IF "update_inventory" \in env.fail
    THEN [ok |-> FALSE, inv |-> inv]
    ELSE [ok |-> TRUE, inv |-> Put(inv, item, q)]

get_inventory(inv, env) ==
    IF "get_inventory" \in env.fail THEN <<>>
    ELSE LET pos == { i \in DOMAIN inv : inv[i] > 0 } IN [i \in pos |-> inv[i]]

get_inventory_item(inv, item, env) ==
    IF "get_inventory_item" \in env.fail THEN 0
    ELSE IF item \in DOMAIN inv THEN inv[item]
    ELSE 0

add_inventory_update(log, rec, env) ==
    IF "add_inventory_update" \in env.fail THEN log ELSE Append(log, rec)

\* the `limit` most recent records, newest first
get_recent_updates(log, limit, env) ==
    IF "get_recent_updates" \in env.fail THEN <<>>
    ELSE LET n == IF Len(log) < limit THEN Len(log) ELSE limit
         IN  [i \in 1..n |-> log[Len(log) + 1 - i]]

\* a clear that reports success and deletes nothing
clear_inventory_keep(inv, env) ==
    IF "clear_inventory" \in env.fail
    THEN [ok |-> FALSE, inv |-> inv]
    ELSE [ok |-> TRUE, inv |-> inv]

clear_inventory(inv, env) ==
    IF "clear_inventory" \in env.fail
    THEN [ok |-> FALSE, inv |-> inv]
    ELSE [ok |-> TRUE, inv |-> <<>>]

delete_inventory_item(inv, item, env) ==
    IF "delete_inventory_item" \in env.fail
    THEN [ok |-> FALSE, inv |-> inv]
    ELSE [ok |-> TRUE, inv |-> Del(inv, item)]

\* one record of 'inventory_updates'
UpdateRecord(p, action, item_name, quantity, description) ==
    [user_phone |-> p, user_name |-> SenderName(p), action |-> action,
     item_name |-> item_name, quantity |-> quantity, description |-> description]

(***************************************************************************)
(* Notifier                                                                *)
(***************************************************************************)
\* one send per active member other than exclude_number; the count of the
\* sends that succeeded is returned
\* requests.post answers 200 unless the number is unreachable
send_whatsapp_message(to_number, env) == to_number \notin env.down

\* the documents of a query, in the order the query streams them
RECURSIVE SetToSeq(_)
SetToSeq(S) ==
    IF S = {} THEN <<>>
    ELSE LET x == CHOOSE y \in S : TRUE IN <<x>> \o SetToSeq(S \ {x})

\* a loop that stops at the first send that fails
RECURSIVE BroadcastLoop_stop(_, _, _, _, _)
BroadcastLoop_stop(members, exclude_number, env, attempts, sent_count) ==
    IF members = <<>>
    THEN [attempts |-> attempts, sent_count |-> sent_count]
    ELSE LET member == Head(members)
         IN  IF member # exclude_number
             THEN IF send_whatsapp_message(member, env)
                  THEN BroadcastLoop_stop(Tail(members), exclude_number, env,
                                          Append(attempts, member), sent_count + 1)
                  ELSE [attempts |-> Append(attempts, member), sent_count |-> sent_count]
             ELSE BroadcastLoop_stop(Tail(members), exclude_number, env, attempts,
                                     sent_count)

\* for member in members: the numbers a send was attempted to, in order, and
\* the count of the sends that succeeded
RECURSIVE BroadcastLoop(_, _, _, _, _)
BroadcastLoop(members, exclude_number, env, attempts, sent_count) ==
    IF members = <<>>
    THEN [attempts |-> attempts, sent_count |-> sent_count]
    ELSE LET member == Head(members)
         IN  IF member # exclude_number
             THEN BroadcastLoop(Tail(members), exclude_number, env,
                                Append(attempts, member),
                                IF send_whatsapp_message(member, env)
                                THEN sent_count + 1 ELSE sent_count)
             ELSE BroadcastLoop(Tail(members), exclude_number, env, attempts, sent_count)

broadcast_to_group(gm, exclude_number, env) ==
    LET members == SetToSeq(get_group_members(gm, env))
        l == BroadcastLoop(members, exclude_number, env, <<>>, 0)
    IN  [to |-> Range(l.attempts), attempts |-> l.attempts, sent_count |-> l.sent_count]

(***************************************************************************)
(* process_group_inventory_command                                         *)
(***************************************************************************)
\* message_text.lower().strip()
Text(m) == Strip(Lower(m))

W_join == <<"j","o","i","n">>
W_leave == <<"l","e","a","v","e">>
W_help == <<"h","e","l","p">>
W_members == <<"m","e","m","b","e","r","s">>
W_broadcast == <<"b","r","o","a","d","c","a","s","t"," ">>
W_reset == <<"r","e","s","e","t">>
W_remove == <<"r","e","m","o","v","e"," ">>
W_inventory == <<"i","n","v","e","n","t","o","r","y">>
W_history == <<"h","i","s","t","o","r","y">>
W_add == <<"a","d","d"," ">>
W_sell == <<"s","e","l","l"," ">>

\* a chain that tests for "=" in front of the add and sell prefixes
Branch_eq_first(text) ==
    CASE text = W_join -> "join"
      [] text = W_leave -> "leave"
      [] text = W_help -> "help"
      [] text = W_members -> "members"
      [] StartsWith(text, W_broadcast) -> "broadcast"
      [] text = W_reset -> "reset"
      [] StartsWith(text, W_remove) -> "remove"
      [] text = W_inventory -> "inventory"
      [] text = W_history -> "history"
      [] Contains(text, "=") -> "update"
      [] StartsWith(text, W_add) -> "add"
      [] StartsWith(text, W_sell) -> "sell"
      [] OTHER -> "unknown"

\* the branch of the if/elif chain that a normalised text selects, once the
\* membership gate has been passed (join and leave are tested before it)
Branch(text) ==
    CASE text = W_join -> "join"
      [] text = W_leave -> "leave"
      [] text = W_help -> "help"
      [] text = W_members -> "members"
      [] StartsWith(text, W_broadcast) -> "broadcast"
      [] text = W_reset -> "reset"
      [] StartsWith(text, W_remove) -> "remove"
      [] text = W_inventory -> "inventory"
      [] text = W_history -> "history"
      [] StartsWith(text, W_add) -> "add"
      [] StartsWith(text, W_sell) -> "sell"
      [] Contains(text, "=") -> "update"
      [] OTHER -> "unknown"

\* item, quantity = item_data.split("=", 1); item.strip(); int(quantity.strip())
\* has_eq: "=" in item_data; quantity.ok is FALSE when int() raises ValueError
PairOf(item_data) ==
    IF ~Contains(item_data, "=")
    THEN [has_eq |-> FALSE, item |-> <<>>, quantity |-> [ok |-> FALSE, val |-> 0]]
    ELSE LET parts == SplitFirst(item_data, "=")
         IN  [has_eq |-> TRUE, item |-> Strip(parts[1]), quantity |-> ParseInt(parts[2])]

\* what the selected branch reads from the text: the pair of an add or a
\* sell, the comma-separated segments of a bulk set, the argument of a
\* broadcast or a remove
Parse(text) ==
    LET b == Branch(text)
        segs == SplitAll(text, ",")
    IN  [pair |-> CASE b = "add" -> PairOf(Strip(DropFirst(text, 4)))
                    [] b = "sell" -> PairOf(Strip(DropFirst(text, 5)))
                    [] OTHER -> PairOf(<<>>),
         items |-> IF b = "update" THEN [i \in DOMAIN segs |-> PairOf(segs[i])] ELSE <<>>,
         arg |-> CASE b = "broadcast" -> Strip(DropFirst(text, 10))
                   [] b = "remove" -> Strip(DropFirst(text, 7))
                   [] OTHER -> <<>>]

\* what one call does: the three collections afterwards, the returned
\* reply, and the numbers addressed by broadcast_to_group
Result(inv, gm, log, rep, to) ==
    [inv |-> inv, gm |-> gm, log |-> log, reply |-> rep, to |-> to]

Desc(text, quantity, item) == [text |-> text, quantity |-> quantity, item |-> item]

RECURSIVE SumQty(_)
SumQty(d) ==
    IF DOMAIN d = {} THEN 0
    ELSE LET k == CHOOSE x \in DOMAIN d : TRUE
         IN  d[k] + SumQty([y \in DOMAIN d \ {k} |-> d[y]])

\* a join that does not look at the current membership
join_unchecked(inv, gm, log, p, env) ==
    LET a == add_group_member(gm, p, env)
        b == broadcast_to_group(a.gm, p, env)
        log2 == add_inventory_update(log,
                    UpdateRecord(p, "join", None, None,
                                 Desc("Joined the group", None, None)), env)
    IN  Result(inv, a.gm, log2,
               [kind |-> "joined", name |-> SenderName(p),
                total |-> Cardinality(get_group_members(a.gm, env))], b.to)

join(inv, gm, log, p, env) ==
    IF ~is_group_member(gm, p, env)
    THEN LET a == add_group_member(gm, p, env)
         IN  IF a.ok
             THEN LET members == get_group_members(a.gm, env)
                      b == broadcast_to_group(a.gm, p, env)
                      log2 == add_inventory_update(log,
                                  UpdateRecord(p, "join", None, None,
                                               Desc("Joined the group", None, None)), env)
                  IN  Result(inv, a.gm, log2,
                             [kind |-> "joined", name |-> SenderName(p),
                              total |-> Cardinality(members)], b.to)
             ELSE Result(inv, gm, log, [kind |-> "join_error"], {})
    ELSE Result(inv, gm, log, [kind |-> "already_member"], {})

\* a leave that does not look at the current membership
leave_unchecked(inv, gm, log, p, env) ==
    LET r == remove_group_member(gm, p, env)
    IN  IF r.ok
        THEN LET b == broadcast_to_group(r.gm, p, env)
                 log2 == add_inventory_update(log,
                             UpdateRecord(p, "leave", None, None,
                                          Desc("Left the group", None, None)), env)
             IN  Result(inv, r.gm, log2, [kind |-> "left"], b.to)
        ELSE Result(inv, gm, log, [kind |-> "leave_error"], {})

leave(inv, gm, log, p, env) ==
    IF is_group_member(gm, p, env)
    THEN LET r == remove_group_member(gm, p, env)
         IN  IF r.ok
             THEN LET b == broadcast_to_group(r.gm, p, env)
                      log2 == add_inventory_update(log,
                                  UpdateRecord(p, "leave", None, None,
                                               Desc("Left the group", None, None)), env)
                  IN  Result(inv, r.gm, log2, [kind |-> "left"], b.to)
             ELSE Result(inv, gm, log, [kind |-> "leave_error"], {})
    ELSE Result(inv, gm, log, [kind |-> "not_in_group"], {})

must_join(inv, gm, log) == Result(inv, gm, log, [kind |-> "must_join"], {})

help(inv, gm, log) == Result(inv, gm, log, [kind |-> "help"], {})

members(inv, gm, log, env) ==
    LET ms == get_group_members(gm, env)
    IN  IF ms = {} THEN Result(inv, gm, log, [kind |-> "no_members"], {})
        ELSE Result(inv, gm, log,
                    [kind |-> "members",
                     list |-> { <<SenderName(x), is_group_admin(x)>> : x \in ms },
                     count |-> Cardinality(ms)], {})

broadcast(inv, gm, log, p, c, env) ==
    IF ~is_group_admin(p)
    THEN Result(inv, gm, log, [kind |-> "admin_only", what |-> "broadcast"], {})
    ELSE LET broadcast_msg == c.parse.arg
         IN  IF broadcast_msg = <<>>
             THEN Result(inv, gm, log, [kind |-> "broadcast_usage"], {})
             ELSE LET b == broadcast_to_group(gm, p, env)
                      log2 == add_inventory_update(log,
                                  UpdateRecord(p, "broadcast", None, None,
                                               Desc("Broadcast message to members",
                                                    Some(b.sent_count), None)), env)
                  IN  Result(inv, gm, log2,
                             [kind |-> "broadcast_sent", sent_count |-> b.sent_count], b.to)

reset(inv, gm, log, p, env) ==
    IF ~is_group_admin(p)
    THEN Result(inv, gm, log, [kind |-> "admin_only", what |-> "reset"], {})
    ELSE LET c == clear_inventory(inv, env)
         IN  IF c.ok
             THEN LET b == broadcast_to_group(gm, p, env)
                      log2 == add_inventory_update(log,
                                  UpdateRecord(p, "reset", None, None,
                                               Desc("Reset all inventory", None, None)), env)
                  IN  Result(c.inv, gm, log2, [kind |-> "reset_done"], b.to)
             ELSE Result(inv, gm, log, [kind |-> "reset_error"], {})

remove(inv, gm, log, p, c, env) ==
    IF ~is_group_admin(p)
    THEN Result(inv, gm, log, [kind |-> "admin_only", what |-> "remove"], {})
    ELSE LET item_name == c.parse.arg
         IN  IF item_name = <<>>
             THEN Result(inv, gm, log, [kind |-> "remove_usage"], {})
             ELSE IF get_inventory_item(inv, item_name, env) > 0
             THEN LET d == delete_inventory_item(inv, item_name, env)
                  IN  IF d.ok
                      THEN LET log2 == add_inventory_update(log,
                                           UpdateRecord(p, "remove", Some(item_name), None,
                                                        Desc("Removed from inventory", None,
                                                             Some(item_name))), env)
                               b == broadcast_to_group(gm, p, env)
                           IN  Result(d.inv, gm, log2,
                                      [kind |-> "removed", item |-> item_name], b.to)
                      ELSE Result(inv, gm, log, [kind |-> "remove_error"], {})
             ELSE Result(inv, gm, log, [kind |-> "not_found", item |-> item_name], {})

show_inventory(inv, gm, log, env) ==
    LET cur == get_inventory(inv, env)
    IN  IF DOMAIN cur = {}
        THEN Result(inv, gm, log, [kind |-> "inventory_empty"], {})
        ELSE Result(inv, gm, log,
                    [kind |-> "inventory", lines |-> SortedItems(cur),
                     total |-> SumQty(cur)], {})

history(inv, gm, log, env) ==
    LET updates == get_recent_updates(log, HistoryLimit, env)
    IN  IF updates = <<>>
        THEN Result(inv, gm, log, [kind |-> "no_updates"], {})
        ELSE Result(inv, gm, log,
                    [kind |-> "history",
                     lines |-> [i \in DOMAIN updates |->
                                  <<updates[i].user_name, updates[i].action,
                                    updates[i].item_name, updates[i].quantity>>]], {})

\* an add that stores the quantity of the command
add_new_quantity_set(current_quantity, quantity) == quantity

\* new_quantity = current_quantity + quantity
add_new_quantity(current_quantity, quantity) == current_quantity + quantity

add(inv, gm, log, p, c, env) ==
    LET item_data == c.parse.pair
    IN  IF ~item_data.has_eq
        THEN Result(inv, gm, log, [kind |-> "add_format"], {})
        ELSE
        LET item == item_data.item
            quantity == item_data.quantity
        IN  IF ~quantity.ok
            THEN Result(inv, gm, log, [kind |-> "invalid_quantity"], {})
            ELSE IF quantity.val <= 0
            THEN Result(inv, gm, log, [kind |-> "must_be_positive"], {})
            ELSE
            LET current_quantity == get_inventory_item(inv, item, env)
                new_quantity == add_new_quantity(current_quantity, quantity.val)
                w == update_inventory(inv, item, new_quantity, env)
            IN  IF w.ok
                THEN LET log2 == add_inventory_update(log,
                                     UpdateRecord(p, "add", Some(item), Some(quantity.val),
                                                  Desc("Added", Some(quantity.val), Some(item))),
                                     env)
                         b == broadcast_to_group(gm, p, env)
                     IN  Result(w.inv, gm, log2,
                                [kind |-> "added", item |-> item, quantity |-> quantity.val,
                                 new_quantity |-> new_quantity], b.to)
                ELSE Result(inv, gm, log, [kind |-> "update_error"], {})

\* a sale that only checks that the item exists
sell_validate_no_stock_check(current_quantity, quantity) ==
    IF current_quantity = 0 THEN "not_found" ELSE "ok"

\* the two stock checks in front of a sale
sell_validate(current_quantity, quantity) ==
    IF current_quantity = 0 THEN "not_found"
    ELSE IF current_quantity < quantity THEN "not_enough"
    ELSE "ok"

\* a sale that always writes the remaining quantity, 0 included
sell_write_keep_zero(inv, item, new_quantity, env) ==
    update_inventory(inv, item, new_quantity, env)

\* the write of a sale: the entry is deleted when nothing remains
sell_write(inv, item, new_quantity, env) ==
    IF new_quantity = 0
    THEN delete_inventory_item(inv, item, env)
    ELSE update_inventory(inv, item, new_quantity, env)

sell(inv, gm, log, p, c, env) ==
    LET item_data == c.parse.pair
    IN  IF ~item_data.has_eq
        THEN Result(inv, gm, log, [kind |-> "sell_format"], {})
        ELSE
        LET item == item_data.item
            quantity == item_data.quantity
        IN  IF ~quantity.ok
            THEN Result(inv, gm, log, [kind |-> "invalid_quantity"], {})
            ELSE IF quantity.val <= 0
            THEN Result(inv, gm, log, [kind |-> "must_be_positive"], {})
            ELSE
            LET current_quantity == get_inventory_item(inv, item, env)
                v == sell_validate(current_quantity, quantity.val)
            IN  IF v = "not_found"
                THEN Result(inv, gm, log, [kind |-> "not_found", item |-> item], {})
                ELSE IF v = "not_enough"
                THEN Result(inv, gm, log,
                            [kind |-> "not_enough", item |-> item,
                             available |-> current_quantity], {})
                ELSE
                LET new_quantity == current_quantity - quantity.val
                    w == sell_write(inv, item, new_quantity, env)
                    log2 == add_inventory_update(log,
                                UpdateRecord(p, "sell", Some(item), Some(quantity.val),
                                             Desc("Sold", Some(quantity.val), Some(item))), env)
                    b == broadcast_to_group(gm, p, env)
                IN  Result(w.inv, gm, log2,
                           [kind |-> "sold", item |-> item, quantity |-> quantity.val,
                            remaining |-> new_quantity], b.to)

\* the for loop of the bulk-set branch over the comma-separated segments:
\* the inventory and updated_items when the loop ends, and how it ended
RECURSIVE UpdateLoop(_, _, _, _)
UpdateLoop(items, inv, updated_items, env) ==
    IF items = <<>>
    THEN [inv |-> inv, updated_items |-> updated_items, exit |-> "done", name |-> <<>>]
    ELSE
    LET item == Head(items)
    IN  IF ~item.has_eq
        THEN UpdateLoop(Tail(items), inv, updated_items, env)
        ELSE
        LET name == item.item
            quantity == item.quantity
        IN  IF ~quantity.ok
            THEN [inv |-> inv, updated_items |-> updated_items,
                  exit |-> "ValueError", name |-> name]
            ELSE IF quantity.val < 0
            THEN [inv |-> inv, updated_items |-> updated_items,
                  exit |-> "negative", name |-> name]
            ELSE IF quantity.val = 0
            THEN IF get_inventory_item(inv, name, env) > 0
                 THEN UpdateLoop(Tail(items), delete_inventory_item(inv, name, env).inv,
                                 Append(updated_items, [name |-> name, quantity |-> None]), env)
                 ELSE UpdateLoop(Tail(items), inv, updated_items, env)
            ELSE LET w == update_inventory(inv, name, quantity.val, env)
                 IN  IF w.ok
                     THEN UpdateLoop(Tail(items), w.inv,
                                     Append(updated_items,
                                            [name |-> name, quantity |-> Some(quantity.val)]),
                                     env)
                     ELSE UpdateLoop(Tail(items), inv, updated_items, env)

update(inv, gm, log, p, c, env) ==
    LET l == UpdateLoop(c.parse.items, inv, <<>>, env)
    IN  IF l.exit = "negative"
        THEN Result(l.inv, gm, log, [kind |-> "must_be_non_negative", item |-> l.name], {})
        ELSE IF l.exit = "ValueError"
        THEN Result(l.inv, gm, log, [kind |-> "invalid_format"], {})
        ELSE IF l.updated_items # <<>>
        THEN LET log2 == add_inventory_update(log,
                             UpdateRecord(p, "update", None, None,
                                          Desc("Updated inventory items", None, None)), env)
                 b == broadcast_to_group(gm, p, env)
             IN  Result(l.inv, gm, log2,
                        [kind |-> "updated", items |-> l.updated_items], b.to)
        ELSE Result(l.inv, gm, log, [kind |-> "invalid_format"], {})

unknown(inv, gm, log) == Result(inv, gm, log, [kind |-> "unknown"], {})

(***************************************************************************)
(* Inbound messages                                                        *)
(***************************************************************************)
apple == <<"a","p","p","l","e">>
banana == <<"b","a","n","a","n","a">>

Messages ==
    { W_join, W_leave, <<" ","H","e","l","p"," ">>, W_members, W_inventory,
      W_history, W_reset,
      W_remove \o apple,
      W_broadcast \o <<"h","i">>,
      <<"h","e","l","l","o">>,
      W_add \o apple \o <<"=","3">>,
      W_add \o apple \o <<"=","6">>,
      W_add \o apple \o <<"=","0">>,
      W_add \o apple \o <<"=","x">>,
      W_sell \o apple \o <<"=","3">>,
      W_sell \o apple \o <<"=","1","0","0">>,
      W_sell \o banana \o <<"=","5">>,
      W_sell \o apple \o <<"=","2",",">> \o banana \o <<"=","5">>,
      apple \o <<"=","1","0",","," ">> \o banana \o <<"=","5">>,
      apple \o <<"=","0">>,
      apple \o <<"=","2",","," ">> \o banana \o <<"=","-","1">>,
      apple \o <<"=","2",","," ">> \o banana \o <<"=","x">>,
      apple \o <<"=","x",","," ">> \o banana \o <<"=","5">>,
      apple \o <<"=","2",","," ">> \o banana }

\* every inbound message with its normalised text, the branch it selects and
\* what that branch parses out of the text
Commands ==
    { [raw |-> m, text |-> Text(m), branch |-> Branch(Text(m)), parse |-> Parse(Text(m))] :
        m \in Messages }

(***************************************************************************)
(* Actions: one inbound message handled from start to end                  *)
(***************************************************************************)
\* the request threads of the server
Threads == 1..MaxThreads

NoCommand == [raw |-> <<>>, text |-> <<>>, branch |-> "none", parse |-> Parse(<<>>)]

\* a thread that handles no request: pc is its position in
\* process_group_inventory_command, p and c the sender and the message,
\* current_quantity / i / updated_items / docs / members the locals of the
\* branch, rest the calls still to make once the reply is decided, ret the
\* reply, sent whether broadcast_to_group was called and sent_count what it
\* returned
Idle ==
    [pc |-> "idle", p |-> "", c |-> NoCommand, current_quantity |-> 0, i |-> 0,
     updated_items |-> <<>>, docs |-> {}, rest |-> <<>>, ret |-> [kind |-> "none"],
     sent |-> FALSE, sent_count |-> 0]

NoRequest ==
    [method |-> "none", request |-> <<>>, status |-> 0, body |-> "", handled |-> <<>>,
     pre |-> [inventory |-> <<>>, group_members |-> <<>>, inventory_updates |-> <<>>]]

Init ==
    /\ inventory = <<>>
    /\ group_members = <<>>
    /\ inventory_updates = <<>>
    /\ last = [sender |-> "", cmd |-> NoCommand]
    /\ reply = [kind |-> "none"]
    /\ notified = {}
    /\ before = [inventory |-> <<>>, group_members |-> <<>>, inventory_updates |-> <<>>]
    /\ threads = [t \in Threads |-> Idle]
    /\ faults = NoFault
    /\ http = NoRequest

\* the state after the call that returned r
Apply(r, p, c) ==
    /\ Len(r.log) <= MaxLog
    /\ \A i \in DOMAIN r.inv : r.inv[i] <= MaxQty
    /\ inventory' = r.inv
    /\ group_members' = r.gm
    /\ inventory_updates' = r.log
    /\ last' = [sender |-> p, cmd |-> c]
    /\ reply' = r.reply
    /\ notified' = r.to
    /\ before' = [inventory |-> inventory, group_members |-> group_members,
                  inventory_updates |-> inventory_updates]
    /\ UNCHANGED <<threads, faults, http>>

\* the membership gate in front of every branch but join and leave
\* a gate that is open to everybody / to admins who are no members
Gate_open(p, env) == TRUE
Gate_admin_bypass(p, env) == is_group_member(group_members, p, env) \/ is_group_admin(p)

Gate(p, env) == is_group_member(group_members, p, env)

\* the commands that select each branch
JoinCommands == { c \in Commands : c.branch = "join" }
LeaveCommands == { c \in Commands : c.branch = "leave" }
HelpCommands == { c \in Commands : c.branch = "help" }
MembersCommands == { c \in Commands : c.branch = "members" }
BroadcastCommands == { c \in Commands : c.branch = "broadcast" }
ResetCommands == { c \in Commands : c.branch = "reset" }
RemoveCommands == { c \in Commands : c.branch = "remove" }
ShowInventoryCommands == { c \in Commands : c.branch = "inventory" }
HistoryCommands == { c \in Commands : c.branch = "history" }
AddCommands == { c \in Commands : c.branch = "add" }
SellCommands == { c \in Commands : c.branch = "sell" }
UpdateCommands == { c \in Commands : c.branch = "update" }
UnknownCommands == { c \in Commands : c.branch = "unknown" }
GatedCommands == { c \in Commands : c.branch \notin {"join", "leave"} }

Join(env) ==
    \E p \in Senders, c \in JoinCommands :
        /\ Apply(join(inventory, group_members, inventory_updates, p, env), p, c)

Leave(env) ==
    \E p \in Senders, c \in LeaveCommands :
        /\ Apply(leave(inventory, group_members, inventory_updates, p, env), p, c)

MustJoin(env) ==
    \E p \in Senders, c \in GatedCommands :
        /\ ~Gate(p, env)
        /\ Apply(must_join(inventory, group_members, inventory_updates), p, c)

Help(env) ==
    \E p \in Senders, c \in HelpCommands :
        /\ Gate(p, env)
        /\ Apply(help(inventory, group_members, inventory_updates), p, c)

Members(env) ==
    \E p \in Senders, c \in MembersCommands :
        /\ Gate(p, env)
        /\ Apply(members(inventory, group_members, inventory_updates, env), p, c)

Broadcast(env) ==
    \E p \in Senders, c \in BroadcastCommands :
        /\ Gate(p, env)
        /\ Apply(broadcast(inventory, group_members, inventory_updates, p, c, env), p, c)

Reset(env) ==
    \E p \in Senders, c \in ResetCommands :
        /\ Gate(p, env)
        /\ Apply(reset(inventory, group_members, inventory_updates, p, env), p, c)

Remove(env) ==
    \E p \in Senders, c \in RemoveCommands :
        /\ Gate(p, env)
        /\ Apply(remove(inventory, group_members, inventory_updates, p, c, env), p, c)

ShowInventory(env) ==
    \E p \in Senders, c \in ShowInventoryCommands :
        /\ Gate(p, env)
        /\ Apply(show_inventory(inventory, group_members, inventory_updates, env), p, c)

History(env) ==
    \E p \in Senders, c \in HistoryCommands :
        /\ Gate(p, env)
        /\ Apply(history(inventory, group_members, inventory_updates, env), p, c)

Add(env) ==
    \E p \in Senders, c \in AddCommands :
        /\ Gate(p, env)
        /\ Apply(add(inventory, group_members, inventory_updates, p, c, env), p, c)

Sell(env) ==
    \E p \in Senders, c \in SellCommands :
        /\ Gate(p, env)
        /\ Apply(sell(inventory, group_members, inventory_updates, p, c, env), p, c)

Update(env) ==
    \E p \in Senders, c \in UpdateCommands :
        /\ Gate(p, env)
        /\ Apply(update(inventory, group_members, inventory_updates, p, c, env), p, c)

Unknown(env) ==
    \E p \in Senders, c \in UnknownCommands :
        /\ Gate(p, env)
        /\ Apply(unknown(inventory, group_members, inventory_updates), p, c)

Next ==
    \/ Join(NoFault)
    \/ Leave(NoFault)
    \/ MustJoin(NoFault)
    \/ Help(NoFault)
    \/ Members(NoFault)
    \/ Broadcast(NoFault)
    \/ Reset(NoFault)
    \/ Remove(NoFault)
    \/ ShowInventory(NoFault)
    \/ History(NoFault)
    \/ Add(NoFault)
    \/ Sell(NoFault)
    \/ Update(NoFault)
    \/ Unknown(NoFault)

Spec == Init /\ [][Next]_vars

TypeOK ==
    /\ \A i \in DOMAIN inventory : inventory[i] \in Int
    /\ DOMAIN group_members \subseteq Senders
    /\ Len(inventory_updates) <= MaxLog
    /\ notified \subseteq Senders

(***************************************************************************)
(* Interleaved handling.  The development server answers every request on  *)
(* a thread of its own, so two calls of process_group_inventory_command    *)
(* overlap.  Each action below is one call of a store operation by one     *)
(* thread, together with the local computation that follows it up to the   *)
(* next store call.  clear_inventory is a query followed by one delete per *)
(* document.  The messages are those that write to the store.              *)
(***************************************************************************)
ConcMessages ==
    { W_join, W_leave, W_reset,
      W_remove \o apple,
      W_broadcast \o <<"h","i">>,
      W_add \o apple \o <<"=","3">>,
      W_sell \o apple \o <<"=","3">>,
      W_sell \o apple \o <<"=","1","0","0">>,
      apple \o <<"=","1","0",","," ">> \o banana \o <<"=","5">>,
      apple \o <<"=","0">> }

ConcCommands == { c \in Commands : c.raw \in ConcMessages }

\* the thread once its reply is decided: rest are the store calls it still
\* makes before it returns
Return(th, ret, rest) ==
    [th EXCEPT !.pc = IF rest = <<>> THEN "respond" ELSE Head(rest),
               !.rest = IF rest = <<>> THEN <<>> ELSE Tail(rest),
               !.ret = ret, !.i = 0, !.updated_items = <<>>, !.docs = {}]

\* the record the branch of th appends to 'inventory_updates'
LogRecord(th) ==
    LET p == th.p
        c == th.c
    IN  CASE c.branch = "join" ->
               UpdateRecord(p, "join", None, None, Desc("Joined the group", None, None))
          [] c.branch = "leave" ->
               UpdateRecord(p, "leave", None, None, Desc("Left the group", None, None))
          [] c.branch = "reset" ->
               UpdateRecord(p, "reset", None, None, Desc("Reset all inventory", None, None))
          [] c.branch = "remove" ->
               UpdateRecord(p, "remove", Some(c.parse.arg), None,
                            Desc("Removed from inventory", None, Some(c.parse.arg)))
          [] c.branch = "add" ->
               UpdateRecord(p, "add", Some(c.parse.pair.item), Some(c.parse.pair.quantity.val),
                            Desc("Added", Some(c.parse.pair.quantity.val),
                                 Some(c.parse.pair.item)))
          [] c.branch = "sell" ->
               UpdateRecord(p, "sell", Some(c.parse.pair.item), Some(c.parse.pair.quantity.val),
                            Desc("Sold", Some(c.parse.pair.quantity.val),
                                 Some(c.parse.pair.item)))
          [] c.branch = "broadcast" ->
               UpdateRecord(p, "broadcast", None, None,
                            Desc("Broadcast message to members", Some(th.sent_count), None))
          [] OTHER ->
               UpdateRecord(p, "update", None, None,
                            Desc("Updated inventory items", None, None))

\* the for loop of the bulk-set branch from segment i on, up to its next
\* store call or its return
RECURSIVE UpdateStep(_, _, _)
UpdateStep(th, i, updated_items) ==
    LET items == th.c.parse.items
    IN  IF i > Len(items)
        THEN IF updated_items # <<>>
             THEN Return(th, [kind |-> "updated", items |-> updated_items],
                         <<"log", "notify">>)
             ELSE Return(th, [kind |-> "invalid_format"], <<>>)
        ELSE
        LET item == items[i]
        IN  IF ~item.has_eq
            THEN UpdateStep(th, i + 1, updated_items)
            ELSE IF ~item.quantity.ok
            THEN Return(th, [kind |-> "invalid_format"], <<>>)
            ELSE IF item.quantity.val < 0
            THEN Return(th, [kind |-> "must_be_non_negative", item |-> item.item], <<>>)
            ELSE [th EXCEPT !.pc = IF item.quantity.val = 0 THEN "update_get"
                                   ELSE "update_set",
                            !.i = i, !.updated_items = updated_items]

\* from the membership gate to the first store call of the branch
Enter(th) ==
    LET p == th.p
        c == th.c
        pair == c.parse.pair
    IN  CASE c.branch = "reset" ->
               IF ~is_group_admin(p)
               THEN Return(th, [kind |-> "admin_only", what |-> "reset"], <<>>)
               ELSE [th EXCEPT !.pc = "reset_stream"]
          [] c.branch = "remove" ->
               IF ~is_group_admin(p)
               THEN Return(th, [kind |-> "admin_only", what |-> "remove"], <<>>)
               ELSE IF c.parse.arg = <<>>
               THEN Return(th, [kind |-> "remove_usage"], <<>>)
               ELSE [th EXCEPT !.pc = "remove_get"]
          [] c.branch = "add" ->
               IF ~pair.has_eq THEN Return(th, [kind |-> "add_format"], <<>>)
               ELSE IF ~pair.quantity.ok THEN Return(th, [kind |-> "invalid_quantity"], <<>>)
               ELSE IF pair.quantity.val <= 0
               THEN Return(th, [kind |-> "must_be_positive"], <<>>)
               ELSE [th EXCEPT !.pc = "add_get"]
          [] c.branch = "sell" ->
               IF ~pair.has_eq THEN Return(th, [kind |-> "sell_format"], <<>>)
               ELSE IF ~pair.quantity.ok THEN Return(th, [kind |-> "invalid_quantity"], <<>>)
               ELSE IF pair.quantity.val <= 0
               THEN Return(th, [kind |-> "must_be_positive"], <<>>)
               ELSE [th EXCEPT !.pc = "sell_get"]
          [] c.branch = "update" -> UpdateStep(th, 1, <<>>)
          [] c.branch = "broadcast" ->
               IF ~is_group_admin(p)
               THEN Return(th, [kind |-> "admin_only", what |-> "broadcast"], <<>>)
               ELSE IF c.parse.arg = <<>>
               THEN Return(th, [kind |-> "broadcast_usage"], <<>>)
               ELSE Return(th, [kind |-> "broadcast_sent", sent_count |-> 0],
                           <<"notify", "log">>)
          [] OTHER -> Return(th, [kind |-> "unknown"], <<>>)

\* thread t is at pc
At(t, pc) == threads[t].pc = pc

Go(t, th) == threads' = [threads EXCEPT ![t] = th]

\* a request arrives: the first membership read of the call
Receive(t, env) ==
    /\ At(t, "idle")
    /\ \E p \in Senders, c \in ConcCommands :
         LET th == [Idle EXCEPT !.p = p, !.c = c]
             is_member == is_group_member(group_members, p, env)
         IN  Go(t, CASE c.branch = "join" ->
                          IF ~is_member THEN [th EXCEPT !.pc = "join_add"]
                          ELSE Return(th, [kind |-> "already_member"], <<>>)
                     [] c.branch = "leave" ->
                          IF is_member THEN [th EXCEPT !.pc = "leave_remove"]
                          ELSE Return(th, [kind |-> "not_in_group"], <<>>)
                     [] OTHER ->
                          IF ~is_member THEN Return(th, [kind |-> "must_join"], <<>>)
                          ELSE Enter(th))
    /\ UNCHANGED <<inventory, group_members, inventory_updates, last, reply, notified, before, faults, http>>

JoinAdd(t, env) ==
    /\ At(t, "join_add")
    /\ LET th == threads[t]
           a == add_group_member(group_members, th.p, env)
       IN  /\ group_members' = a.gm
           /\ Go(t, IF a.ok THEN [th EXCEPT !.pc = "join_count"]
                    ELSE Return(th, [kind |-> "join_error"], <<>>))
    /\ UNCHANGED <<inventory, inventory_updates, last, reply, notified, before, faults, http>>

JoinCount(t, env) ==
    /\ At(t, "join_count")
    /\ LET th == threads[t]
           ms == get_group_members(group_members, env)
       IN  Go(t, Return(th, [kind |-> "joined", name |-> SenderName(th.p),
                             total |-> Cardinality(ms)], <<"notify", "log">>))
    /\ UNCHANGED <<inventory, group_members, inventory_updates, last, reply, notified, before, faults, http>>

LeaveRemove(t, env) ==
    /\ At(t, "leave_remove")
    /\ LET th == threads[t]
           r == remove_group_member(group_members, th.p, env)
       IN  /\ group_members' = r.gm
           /\ Go(t, IF r.ok THEN Return(th, [kind |-> "left"], <<"notify", "log">>)
                    ELSE Return(th, [kind |-> "leave_error"], <<>>))
    /\ UNCHANGED <<inventory, inventory_updates, last, reply, notified, before, faults, http>>

\* docs = inventory_ref.stream()
ResetStream(t, env) ==
    /\ At(t, "reset_stream")
    /\ LET th == threads[t]
       IN  Go(t, IF "clear_inventory" \in env.fail
                 THEN Return(th, [kind |-> "reset_error"], <<>>)
                 ELSE IF DOMAIN inventory = {}
                 THEN Return(th, [kind |-> "reset_done"], <<"notify", "log">>)
                 ELSE [th EXCEPT !.pc = "reset_delete", !.docs = DOMAIN inventory])
    /\ UNCHANGED <<inventory, group_members, inventory_updates, last, reply, notified, before, faults, http>>

\* doc.reference.delete() for one document of the query
ResetDelete(t, env) ==
    /\ At(t, "reset_delete")
    /\ LET th == threads[t]
       IN  \E d \in th.docs :
             /\ inventory' = Del(inventory, d)
             /\ Go(t, IF th.docs = {d}
                      THEN Return(th, [kind |-> "reset_done"], <<"notify", "log">>)
                      ELSE [th EXCEPT !.docs = th.docs \ {d}])
    /\ UNCHANGED <<group_members, inventory_updates, last, reply, notified, before, faults, http>>

RemoveGet(t, env) ==
    /\ At(t, "remove_get")
    /\ LET th == threads[t]
           item_name == th.c.parse.arg
       IN  Go(t, IF get_inventory_item(inventory, item_name, env) > 0
                 THEN [th EXCEPT !.pc = "remove_delete"]
                 ELSE Return(th, [kind |-> "not_found", item |-> item_name], <<>>))
    /\ UNCHANGED <<inventory, group_members, inventory_updates, last, reply, notified, before, faults, http>>

RemoveDelete(t, env) ==
    /\ At(t, "remove_delete")
    /\ LET th == threads[t]
           item_name == th.c.parse.arg
           d == delete_inventory_item(inventory, item_name, env)
       IN  /\ inventory' = d.inv
           /\ Go(t, IF d.ok
                    THEN Return(th, [kind |-> "removed", item |-> item_name],
                                <<"log", "notify">>)
                    ELSE Return(th, [kind |-> "remove_error"], <<>>))
    /\ UNCHANGED <<group_members, inventory_updates, last, reply, notified, before, faults, http>>

AddGet(t, env) ==
    /\ At(t, "add_get")
    /\ LET th == threads[t]
       IN  Go(t, [th EXCEPT !.pc = "add_set",
                            !.current_quantity =
                                get_inventory_item(inventory, th.c.parse.pair.item, env)])
    /\ UNCHANGED <<inventory, group_members, inventory_updates, last, reply, notified, before, faults, http>>

AddSet(t, env) ==
    /\ At(t, "add_set")
    /\ LET th == threads[t]
           item == th.c.parse.pair.item
           quantity == th.c.parse.pair.quantity.val
           new_quantity == add_new_quantity(th.current_quantity, quantity)
           w == update_inventory(inventory, item, new_quantity, env)
       IN  /\ new_quantity <= MaxQty
           /\ inventory' = w.inv
           /\ Go(t, IF w.ok
                    THEN Return(th, [kind |-> "added", item |-> item, quantity |-> quantity,
                                     new_quantity |-> new_quantity], <<"log", "notify">>)
                    ELSE Return(th, [kind |-> "update_error"], <<>>))
    /\ UNCHANGED <<group_members, inventory_updates, last, reply, notified, before, faults, http>>

SellGet(t, env) ==
    /\ At(t, "sell_get")
    /\ LET th == threads[t]
           item == th.c.parse.pair.item
           quantity == th.c.parse.pair.quantity.val
           current_quantity == get_inventory_item(inventory, item, env)
           v == sell_validate(current_quantity, quantity)
       IN  Go(t, IF v = "not_found"
                 THEN Return(th, [kind |-> "not_found", item |-> item], <<>>)
                 ELSE IF v = "not_enough"
                 THEN Return(th, [kind |-> "not_enough", item |-> item,
                                  available |-> current_quantity], <<>>)
                 ELSE [th EXCEPT !.pc = "sell_write",
                                 !.current_quantity = current_quantity])
    /\ UNCHANGED <<inventory, group_members, inventory_updates, last, reply, notified, before, faults, http>>

SellWrite(t, env) ==
    /\ At(t, "sell_write")
    /\ LET th == threads[t]
           item == th.c.parse.pair.item
           quantity == th.c.parse.pair.quantity.val
           new_quantity == th.current_quantity - quantity
           w == sell_write(inventory, item, new_quantity, env)
       IN  /\ inventory' = w.inv
           /\ Go(t, Return(th, [kind |-> "sold", item |-> item, quantity |-> quantity,
                                remaining |-> new_quantity], <<"log", "notify">>))
    /\ UNCHANGED <<group_members, inventory_updates, last, reply, notified, before, faults, http>>

UpdateGet(t, env) ==
    /\ At(t, "update_get")
    /\ LET th == threads[t]
           name == th.c.parse.items[th.i].item
       IN  Go(t, IF get_inventory_item(inventory, name, env) > 0
                 THEN [th EXCEPT !.pc = "update_delete"]
                 ELSE UpdateStep(th, th.i + 1, th.updated_items))
    /\ UNCHANGED <<inventory, group_members, inventory_updates, last, reply, notified, before, faults, http>>

UpdateDelete(t, env) ==
    /\ At(t, "update_delete")
    /\ LET th == threads[t]
           name == th.c.parse.items[th.i].item
       IN  /\ inventory' = delete_inventory_item(inventory, name, env).inv
           /\ Go(t, UpdateStep(th, th.i + 1,
                               Append(th.updated_items, [name |-> name, quantity |-> None])))
    /\ UNCHANGED <<group_members, inventory_updates, last, reply, notified, before, faults, http>>

UpdateSet(t, env) ==
    /\ At(t, "update_set")
    /\ LET th == threads[t]
           name == th.c.parse.items[th.i].item
           quantity == th.c.parse.items[th.i].quantity.val
           w == update_inventory(inventory, name, quantity, env)
       IN  /\ inventory' = w.inv
           /\ Go(t, UpdateStep(th, th.i + 1,
                               IF w.ok
                               THEN Append(th.updated_items,
                                           [name |-> name, quantity |-> Some(quantity)])
                               ELSE th.updated_items))
    /\ UNCHANGED <<group_members, inventory_updates, last, reply, notified, before, faults, http>>

\* FirebaseManager.add_inventory_update of the branch
Log(t, env) ==
    /\ At(t, "log")
    /\ Len(inventory_updates) < MaxLog
    /\ LET th == threads[t]
       IN  /\ inventory_updates' = add_inventory_update(inventory_updates, LogRecord(th), env)
           /\ Go(t, Return(th, th.ret, th.rest))
    /\ UNCHANGED <<inventory, group_members, last, reply, notified, before, faults, http>>

\* broadcast_to_group of the branch: the members are read, then addressed
\* a handler that gives up when one of its notifications is not delivered
AfterNotify_abort(th, gm, env) ==
    LET b == broadcast_to_group(gm, th.p, env)
        th1 == [th EXCEPT !.sent = TRUE, !.sent_count = b.sent_count]
    IN  IF b.sent_count < Cardinality(b.to)
        THEN Return(th1, [kind |-> "system_error"], <<>>)
        ELSE Return(th1, th1.ret, th1.rest)

\* the thread after its broadcast_to_group call: the count of delivered
\* sends is used by the broadcast branch and dropped by the others
AfterNotify(th, gm, env) ==
    LET b == broadcast_to_group(gm, th.p, env)
        th1 == [th EXCEPT !.sent = TRUE, !.sent_count = b.sent_count,
                          !.ret = IF th.c.branch = "broadcast"
                                  THEN [kind |-> "broadcast_sent",
                                        sent_count |-> b.sent_count]
                                  ELSE @]
    IN  Return(th1, th1.ret, th1.rest)

Notify(t, env) ==
    /\ At(t, "notify")
    /\ LET th == threads[t]
       IN  /\ notified' = broadcast_to_group(group_members, th.p, env).to
           /\ Go(t, AfterNotify(th, group_members, env))
    /\ UNCHANGED <<inventory, group_members, inventory_updates, last, reply, before, faults, http>>

\* the sends that fail: every subset of the numbers may be unreachable
SendFaults == { [fail |-> {}, down |-> d] : d \in SUBSET Senders }

\* the webhook sends the reply to the sender; the request is over
Respond(t, env) ==
    /\ At(t, "respond")
    /\ Go(t, Idle)
    /\ UNCHANGED <<inventory, group_members, inventory_updates, last, reply, notified, before, faults, http>>

NextConc ==
    \E t \in Threads :
        \/ Receive(t, NoFault)
        \/ JoinAdd(t, NoFault)
        \/ JoinCount(t, NoFault)
        \/ LeaveRemove(t, NoFault)
        \/ ResetStream(t, NoFault)
        \/ ResetDelete(t, NoFault)
        \/ RemoveGet(t, NoFault)
        \/ RemoveDelete(t, NoFault)
        \/ AddGet(t, NoFault)
        \/ AddSet(t, NoFault)
        \/ SellGet(t, NoFault)
        \/ SellWrite(t, NoFault)
        \/ UpdateGet(t, NoFault)
        \/ UpdateDelete(t, NoFault)
        \/ UpdateSet(t, NoFault)
        \/ Log(t, NoFault)
        \/ \E env \in SendFaults : Notify(t, env)
        \/ \E env \in SendFaults : Respond(t, env)

SpecConc == Init /\ [][NextConc]_vars

\* the calls in flight that wrote their sale to the store
SoldBy(t) == threads[t].c.branch = "sell" /\ threads[t].ret.kind = "sold"

(***************************************************************************)
(* C2: after any sequence of join, leave, add, sell, bulk-set, remove and  *)
(* reset commands, handled one at a time or interleaved at single store    *)
(* reads and writes, every quantity stored in the inventory is >= 0.       *)
(***************************************************************************)
C2_QuantityNeverNegative ==
    \A item \in DOMAIN inventory : inventory[item] >= 0

\* two overlapping sales that both read the same stored quantity and both
\* wrote: the second write was computed from a stale read
C2_Witness ==
    /\ SoldBy(1) /\ SoldBy(2)
    /\ threads[1].current_quantity = threads[2].current_quantity
    /\ threads[1].ret.remaining > 0
    /\ apple \in DOMAIN inventory /\ inventory[apple] = threads[1].ret.remaining

(***************************************************************************)
(* Vocabulary of the properties.  Every state is the state right after one *)
(* message was handled: last is the message, before the collections when   *)
(* it arrived, and the unprimed collections what the handler left.         *)
(***************************************************************************)
ActiveIn(gm, p) == p \in DOMAIN gm /\ gm[p].is_active

\* the sender of the last message was an active member when it arrived
WasMember == ActiveIn(before.group_members, last.sender)

QtyIn(inv, item) == IF item \in DOMAIN inv THEN inv[item] ELSE 0

\* the stored quantity when the last message arrived, and now
StockBefore(item) == QtyIn(before.inventory, item)
Stock(item) == QtyIn(inventory, item)

\* what follows the command word, cut at the commas
Payload(c) ==
    CASE c.branch = "add" -> Strip(DropFirst(c.text, 4))
      [] c.branch = "sell" -> Strip(DropFirst(c.text, 5))
      [] OTHER -> c.text

Segments(c) == SplitAll(Payload(c), ",")

\* a segment of the form item=integer, its item and its quantity
IsPair(seg) == Contains(seg, "=") /\ ParseInt(SplitFirst(seg, "=")[2]).ok
PairItem(seg) == Strip(SplitFirst(seg, "=")[1])
PairQty(seg) == ParseInt(SplitFirst(seg, "=")[2]).val

\* c names exactly one pair item=q / several pairs
OnePair(c) == Len(Segments(c)) = 1 /\ IsPair(Segments(c)[1])
ManyPairs(c) == Len(Segments(c)) > 1 /\ \A i \in DOMAIN Segments(c) : IsPair(Segments(c)[i])

\* the pair passed the sell validation when the message arrived
PassesSell(seg) == StockBefore(PairItem(seg)) # 0 /\ StockBefore(PairItem(seg)) >= PairQty(seg)

\* the handler changed none of the three collections
NothingChanged ==
    /\ inventory = before.inventory
    /\ group_members = before.group_members
    /\ inventory_updates = before.inventory_updates

\* the messages the properties name
M_sell_apple_100 == W_sell \o apple \o <<"=","1","0","0">>
M_sell_apple_banana == W_sell \o apple \o <<"=","2",",">> \o banana \o <<"=","5">>

(***************************************************************************)
(* C1: for an active member, `sell item=q` with q > 0 and a stored         *)
(* quantity that is 0, absent or below q leaves the inventory unchanged,   *)
(* appends no audit record and notifies nobody; when the stored quantity   *)
(* is positive the reply is "Not enough <item>. Available: <stored>".      *)
(***************************************************************************)
C1_RefusedSellChangesNothing ==
    LET c == last.cmd
    IN  ( /\ c.branch = "sell"
          /\ OnePair(c)
          /\ PairQty(Segments(c)[1]) > 0
          /\ WasMember
          /\ StockBefore(PairItem(Segments(c)[1])) < PairQty(Segments(c)[1]) )
        => /\ inventory = before.inventory
           /\ inventory_updates = before.inventory_updates
           /\ notified = {}
           /\ StockBefore(PairItem(Segments(c)[1])) > 0
                => reply = [kind |-> "not_enough",
                            item |-> PairItem(Segments(c)[1]),
                            available |-> StockBefore(PairItem(Segments(c)[1]))]

\* `sell apple=100` answered "Not enough apple. Available: 7"
C1_Witness ==
    /\ last.cmd.raw = M_sell_apple_100
    /\ WasMember
    /\ before.inventory = (apple :> 7) @@ (banana :> 5)
    /\ reply = [kind |-> "not_enough", item |-> apple, available |-> 7]

(***************************************************************************)
(* C3: a sell command that names several pairs, one of which fails the     *)
(* validation (item absent or stock below the quantity), changes the       *)
(* quantity of no item.                                                    *)
(***************************************************************************)
C3_SellAllOrNothing ==
    LET c == last.cmd
    IN  ( /\ c.branch = "sell"
          /\ ManyPairs(c)
          /\ \E i \in DOMAIN Segments(c) : ~PassesSell(Segments(c)[i]) )
        => inventory = before.inventory

\* `sell apple=2,banana=5` handled for a member while banana is out of stock
C3_Witness ==
    /\ last.cmd.raw = M_sell_apple_banana
    /\ WasMember
    /\ before.inventory = (apple :> 10)

(***************************************************************************)
(* C4: a sell command from an active member that names several pairs, all  *)
(* of which pass the validation, decrements every named item by its        *)
(* quantity and appends audit records.                                     *)
(***************************************************************************)
C4_MultiSellApplied ==
    LET c == last.cmd
    IN  ( /\ c.branch = "sell"
          /\ ManyPairs(c)
          /\ WasMember
          /\ \A i \in DOMAIN Segments(c) :
                PairQty(Segments(c)[i]) > 0 /\ PassesSell(Segments(c)[i]) )
        => /\ \A i \in DOMAIN Segments(c) :
                Stock(PairItem(Segments(c)[i]))
                   = StockBefore(PairItem(Segments(c)[i])) - PairQty(Segments(c)[i])
           /\ Len(inventory_updates) > Len(before.inventory_updates)

\* the items and quantities an inventory reply lists
Listed(rep) ==
    IF rep.kind = "inventory" THEN { rep.lines[i][1] : i \in DOMAIN rep.lines } ELSE {}

ShownQty(rep, item) ==
    IF item \in Listed(rep)
    THEN LET i == CHOOSE j \in DOMAIN rep.lines : rep.lines[j][1] = item IN rep.lines[i][2]
    ELSE 0

\* some pair of the command names the item
Names(c, item) ==
    \E i \in DOMAIN Segments(c) : IsPair(Segments(c)[i]) /\ PairItem(Segments(c)[i]) = item

M_sell_banana_5 == W_sell \o banana \o <<"=","5">>
M_add_apple_3 == W_add \o apple \o <<"=","3">>
M_set_apple_banana == apple \o <<"=","1","0",","," ">> \o banana \o <<"=","5">>
User1 == "9800000001"

(***************************************************************************)
(* C5: when an active member sells exactly the stored quantity of an item, *)
(* the item's entry is removed from the store; an `inventory` reply lists  *)
(* exactly the stored items, so the item is not listed again until a       *)
(* command that names it (add or bulk set) stores it again.                *)
(***************************************************************************)
C5_SoldOutItemDisappears ==
    LET c == last.cmd
    IN  /\ ( /\ c.branch = "sell"
             /\ OnePair(c)
             /\ WasMember
             /\ PairQty(Segments(c)[1]) > 0
             /\ StockBefore(PairItem(Segments(c)[1])) = PairQty(Segments(c)[1]) )
           => PairItem(Segments(c)[1]) \notin DOMAIN inventory
        /\ (c.branch = "inventory" /\ WasMember)
           => Listed(reply) = DOMAIN inventory
        /\ \A item \in (DOMAIN inventory) \ (DOMAIN before.inventory) :
             c.branch \in {"add", "update"} /\ Names(c, item)

\* `sell banana=5` on a stock of 5 bananas
C5_Witness ==
    /\ last.cmd.raw = M_sell_banana_5
    /\ WasMember
    /\ before.inventory = (apple :> 10) @@ (banana :> 5)
    /\ reply = [kind |-> "sold", item |-> banana, quantity |-> 5, remaining |-> 0]
    /\ inventory = (apple :> 10)

(***************************************************************************)
(* C6: after a bulk-set command of valid pairs i1=q1, ..., in=qn (distinct *)
(* items, all qk >= 0) from an active member the store maps each ik to qk, *)
(* an item set to 0 having no entry, and an `inventory` command shows      *)
(* exactly the stored quantities; a `sell apple=3` on {apple:10, banana:5} *)
(* gives {apple:7, banana:5}.                                              *)
(***************************************************************************)
C6_BulkSetThenInventory ==
    LET c == last.cmd
        segs == Segments(c)
    IN  /\ ( /\ c.branch = "update"
             /\ WasMember
             /\ \A i \in DOMAIN segs : IsPair(segs[i]) /\ PairQty(segs[i]) >= 0
             /\ \A i, j \in DOMAIN segs : PairItem(segs[i]) = PairItem(segs[j]) => i = j )
           => /\ \A i \in DOMAIN segs :
                   /\ Stock(PairItem(segs[i])) = PairQty(segs[i])
                   /\ PairQty(segs[i]) = 0 => PairItem(segs[i]) \notin DOMAIN inventory
              /\ \A item \in (DOMAIN inventory) \cup (DOMAIN before.inventory) :
                   ~Names(c, item) => Stock(item) = StockBefore(item)
        /\ (c.branch = "inventory" /\ WasMember)
           => /\ inventory = before.inventory
              /\ \A item \in (DOMAIN inventory) \cup Listed(reply) :
                   ShownQty(reply, item) = Stock(item)
        /\ ( /\ c.raw = W_sell \o apple \o <<"=","3">>
             /\ WasMember
             /\ before.inventory = (apple :> 10) @@ (banana :> 5) )
           => inventory = (apple :> 7) @@ (banana :> 5)

\* `apple=10, banana=5` from a member, on a store that held other quantities
C6_Witness ==
    /\ last.cmd.raw = M_set_apple_banana
    /\ WasMember
    /\ before.inventory = (apple :> 3)
    /\ inventory = (apple :> 10) @@ (banana :> 5)
    /\ reply.kind = "updated"

(***************************************************************************)
(* C7: additivity of add.  `add item=a` increases the item by a and leaves *)
(* the other items alone, and for every reachable inventory and all        *)
(* a, b > 0, `add item=a` followed by `add item=b` leaves the inventory    *)
(* that a single `add item=(a+b)` leaves.                                  *)
(***************************************************************************)
\* the add commands add i=a, add i=b and add i=(a+b) with a, b > 0
AddTriples ==
    { [a |-> t[1], b |-> t[2], ab |-> t[3],
       item |-> PairItem(Segments(t[3])[1]), total |-> PairQty(Segments(t[3])[1])] :
      t \in { u \in AddCommands \X AddCommands \X AddCommands :
                /\ OnePair(u[1]) /\ OnePair(u[2]) /\ OnePair(u[3])
                /\ PairItem(Segments(u[1])[1]) = PairItem(Segments(u[2])[1])
                /\ PairItem(Segments(u[1])[1]) = PairItem(Segments(u[3])[1])
                /\ PairQty(Segments(u[1])[1]) > 0
                /\ PairQty(Segments(u[2])[1]) > 0
                /\ PairQty(Segments(u[3])[1])
                      = PairQty(Segments(u[1])[1]) + PairQty(Segments(u[2])[1]) } }

C7_AddIsAdditive ==
    /\ LET c == last.cmd
       IN  ( /\ c.branch = "add"
             /\ OnePair(c)
             /\ WasMember
             /\ PairQty(Segments(c)[1]) > 0 )
           => inventory = Put(before.inventory, PairItem(Segments(c)[1]),
                              StockBefore(PairItem(Segments(c)[1])) + PairQty(Segments(c)[1]))
    /\ \A p \in Senders : ActiveIn(group_members, p) =>
         \A t \in AddTriples :
            LET r1 == add(inventory, group_members, inventory_updates, p, t.a, NoFault).inv
                r2 == add(r1, group_members, inventory_updates, p, t.b, NoFault).inv
                r == add(inventory, group_members, inventory_updates, p, t.ab, NoFault).inv
            IN  /\ r2 = r
                /\ r = Put(inventory, t.item, Stock(t.item) + t.total)

\* a second `add apple=3` right after a first one
C7_Witness ==
    /\ last.cmd.raw = M_add_apple_3
    /\ WasMember
    /\ Len(before.inventory_updates) > 0
    /\ before.inventory_updates[Len(before.inventory_updates)].action = "add"
    /\ before.inventory_updates[Len(before.inventory_updates)].quantity = Some(3)
    /\ before.inventory = (apple :> 3)
    /\ inventory = (apple :> 6)

(***************************************************************************)
(* C8 as stated: any command other than `join` from a sender who is not an *)
(* active member is answered "must join the group first", changes nothing  *)
(* and notifies nobody.                                                    *)
(***************************************************************************)
C8_Original ==
    /\ (last.cmd.branch \notin {"none", "join"} /\ ~WasMember)
       => reply.kind = "must_join" /\ NothingChanged /\ notified = {}
    /\ inventory # before.inventory => WasMember

(***************************************************************************)
(* C8 as amended: any command other than `join` and `leave` from a sender  *)
(* who is not an active member is answered "must join the group first",    *)
(* changes nothing and notifies nobody (a `leave` is answered "not in the  *)
(* group" and changes nothing either); every inventory change is made by   *)
(* a sender who was an active member when the command arrived.             *)
(***************************************************************************)
C8_NonMemberRefused ==
    /\ (last.cmd.branch \notin {"none", "join", "leave"} /\ ~WasMember)
       => reply.kind = "must_join" /\ NothingChanged /\ notified = {}
    /\ (last.cmd.branch = "leave" /\ ~WasMember)
       => reply.kind = "not_in_group" /\ NothingChanged /\ notified = {}
    /\ inventory # before.inventory => WasMember

\* `add apple=3` from a non-member while the group has a member and stock
C8_Witness ==
    /\ last.cmd.raw = M_add_apple_3
    /\ ~WasMember
    /\ \E q \in Senders : ActiveIn(before.group_members, q)
    /\ before.inventory = (apple :> 10) @@ (banana :> 5)
    /\ reply.kind = "must_join"

(***************************************************************************)
(* C9: a `reset`, `remove <item>` or `broadcast <text>` from a sender who  *)
(* is not on the admin allow-list is refused and changes nothing:          *)
(* inventory, membership and audit log are as before and no message goes   *)
(* to another member.                                                      *)
(***************************************************************************)
C9_NonAdminRefused ==
    ( /\ last.cmd.branch \in {"reset", "remove", "broadcast"}
      /\ last.sender \notin DOMAIN GROUP_ADMINS )
    => /\ reply.kind \in {"admin_only", "must_join"}
       /\ WasMember => reply = [kind |-> "admin_only", what |-> last.cmd.branch]
       /\ NothingChanged
       /\ notified = {}

\* `reset` from a member who is no admin, with stock and the admin in the group
C9_Witness ==
    /\ last.cmd.branch = "reset"
    /\ last.sender = User1
    /\ WasMember
    /\ ActiveIn(before.group_members, Admin1)
    /\ before.inventory # <<>>
    /\ reply = [kind |-> "admin_only", what |-> "reset"]

(***************************************************************************)
(* C10: a sender on the admin allow-list who is not an active member       *)
(* (never joined, or joined and left) cannot reset, remove or broadcast:   *)
(* the command is refused and inventory, audit log and membership stay as  *)
(* they were.                                                              *)
(***************************************************************************)
C10_AdminMustBeMember ==
    ( /\ last.cmd.branch \in {"reset", "remove", "broadcast"}
      /\ last.sender \in DOMAIN GROUP_ADMINS
      /\ ~WasMember )
    => /\ reply.kind = "must_join"
       /\ NothingChanged
       /\ notified = {}

\* `reset` from the admin who joined and left, with stock and a member present
C10_Witness ==
    /\ last.cmd.branch = "reset"
    /\ last.sender = Admin1
    /\ Admin1 \in DOMAIN before.group_members
    /\ ~WasMember
    /\ ActiveIn(before.group_members, User1)
    /\ before.inventory # <<>>
    /\ reply.kind = "must_join"

(***************************************************************************)
(* C11: a `join` from a sender who is already an active member returns the *)
(* "already in the group" reply, leaves the membership unchanged, appends  *)
(* no audit record and notifies nobody.                                    *)
(***************************************************************************)
C11_JoinIdempotent ==
    (last.cmd.branch = "join" /\ WasMember)
        => /\ reply.kind = "already_member"
           /\ NothingChanged
           /\ notified = {}

\* a second join while another member is there to be notified
C11_Witness ==
    /\ last.cmd.branch = "join"
    /\ WasMember
    /\ reply.kind = "already_member"
    /\ \E q \in Senders \ {last.sender} : ActiveIn(group_members, q)

(***************************************************************************)
(* C12: a `leave` from a sender who is not an active member fails with the *)
(* "not in the group" reply; membership, inventory and audit log are       *)
(* unchanged and nobody is notified.                                       *)
(***************************************************************************)
C12_LeaveOfNonMemberFails ==
    (last.cmd.branch = "leave" /\ ~WasMember)
        => /\ reply.kind = "not_in_group"
           /\ NothingChanged
           /\ notified = {}

\* a leave from somebody who joined and left before, another member present
C12_Witness ==
    /\ last.cmd.branch = "leave"
    /\ last.sender \in DOMAIN before.group_members
    /\ ~WasMember
    /\ reply.kind = "not_in_group"
    /\ \E q \in Senders \ {last.sender} : ActiveIn(group_members, q)

(***************************************************************************)
(* C13: membership follows NonMember -> Member -> NonMember per            *)
(* participant: a participant becomes an active member only by their own   *)
(* successful join, stops being one only by their own successful leave,    *)
(* may join again after leaving, and no command changes the membership of  *)
(* anybody but its sender.                                                 *)
(***************************************************************************)
C13_MembershipStateMachine ==
    /\ \A q \in Senders :
          /\ (ActiveIn(group_members, q) /\ ~ActiveIn(before.group_members, q))
                => q = last.sender /\ last.cmd.branch = "join" /\ reply.kind = "joined"
          /\ (~ActiveIn(group_members, q) /\ ActiveIn(before.group_members, q))
                => q = last.sender /\ last.cmd.branch = "leave" /\ reply.kind = "left"
    /\ (last.cmd.branch = "join" /\ ~WasMember)
          => ActiveIn(group_members, last.sender) /\ reply.kind = "joined"
    /\ (last.cmd.branch = "leave" /\ WasMember)
          => ~ActiveIn(group_members, last.sender) /\ reply.kind = "left"

\* somebody who joined and left joins again
C13_Witness ==
    /\ last.cmd.branch = "join"
    /\ last.sender \in DOMAIN before.group_members
    /\ ~WasMember
    /\ ActiveIn(group_members, last.sender)
    /\ reply.kind = "joined"

(***************************************************************************)
(* C14: an audit record is appended for every command that changes         *)
(* inventory or membership (add, sell, bulk set, remove, reset, join,      *)
(* leave); none is appended by a read-only command (help, inventory,       *)
(* members, history) or by a refused command; no command changes the       *)
(* inventory without leaving an audit record.                              *)
(***************************************************************************)
\* the replies of the commands that were carried out
DoneKinds == {"joined", "left", "reset_done", "removed", "added", "sold", "updated"}

\* the replies that refuse a command
RefusedKinds ==
    {"already_member", "not_in_group", "must_join", "admin_only", "remove_usage",
     "not_found", "add_format", "sell_format", "invalid_quantity", "must_be_positive",
     "not_enough", "must_be_non_negative", "invalid_format", "unknown"}

\* the handler appended exactly one audit record
OneRecordAppended ==
    /\ Len(inventory_updates) = Len(before.inventory_updates) + 1
    /\ SubSeq(inventory_updates, 1, Len(before.inventory_updates)) = before.inventory_updates

C14_AuditForEveryChange ==
    /\ (inventory # before.inventory \/ group_members # before.group_members)
          => OneRecordAppended
    /\ reply.kind \in DoneKinds => OneRecordAppended
    /\ last.cmd.branch \in {"help", "inventory", "members", "history"}
          => inventory_updates = before.inventory_updates
    /\ reply.kind \in RefusedKinds => inventory_updates = before.inventory_updates

(***************************************************************************)
(* C15: two add or sell requests on the same item that are handled at the  *)
(* same time leave the item with the quantity that handling them one after *)
(* the other, in one of the two orders, would leave: no update is lost.    *)
(***************************************************************************)
\* thread t handles an add or a sell and has written its new quantity
Wrote(t) ==
    /\ threads[t].c.branch \in {"add", "sell"}
    /\ threads[t].ret.kind \in {"added", "sold"}

\* the inventory in which item has quantity q
WithStock(item, q) == IF q = 0 THEN Del(inventory, item) ELSE Put(inventory, item, q)

\* the inventory after the command of th is handled alone on inv
HandledAlone(inv, th) ==
    IF th.c.branch = "add"
    THEN add(inv, group_members, <<>>, th.p, th.c, NoFault).inv
    ELSE sell(inv, group_members, <<>>, th.p, th.c, NoFault).inv

\* the quantities of item that the two commands leave when they are handled
\* one after the other, starting from the quantity that either of them read
SerialOutcomes(a, b, item) ==
    { QtyIn(HandledAlone(HandledAlone(WithStock(item, s0), x[1]), x[2]), item) :
        s0 \in {a.current_quantity, b.current_quantity}, x \in {<<a, b>>, <<b, a>>} }

C15_ConcurrentAddSellSerialize ==
    \A t1, t2 \in Threads :
        ( /\ t1 # t2
          /\ Wrote(t1) /\ Wrote(t2)
          /\ threads[t1].c.parse.pair.item = threads[t2].c.parse.pair.item )
        => Stock(threads[t1].c.parse.pair.item)
             \in SerialOutcomes(threads[t1], threads[t2], threads[t1].c.parse.pair.item)

(***************************************************************************)
(* C16: commit-then-notify.  A call sends its group notifications, and the *)
(* webhook the reply, only after the call's inventory or membership write; *)
(* and what the call goes on to do to the store is the same whether its    *)
(* sends are delivered or not.                                             *)
(***************************************************************************)
\* the positions in front of an inventory or membership write
WritePcs ==
    {"join_add", "leave_remove", "reset_stream", "reset_delete", "remove_get",
     "remove_delete", "add_get", "add_set", "sell_get", "sell_write", "update_get",
     "update_delete", "update_set"}

\* the branches that write to inventory or membership
WriteBranches == {"join", "leave", "reset", "remove", "add", "sell", "update"}

\* no thread that has sent is still in front of one of its writes
SendsAfterWrites ==
    \A t \in Threads :
        /\ threads[t].sent => threads[t].pc \notin WritePcs
        /\ At(t, "respond") => threads[t].rest = <<>>

\* a thread of one of the branches bs that is about to notify the group goes
\* on in the same way, and appends the same audit record, whichever sends fail
SameAfterSends(bs) ==
    \A t \in Threads :
        (At(t, "notify") /\ threads[t].c.branch \in bs)
        => \A env \in SendFaults :
             LET a == AfterNotify(threads[t], group_members, env)
                 a0 == AfterNotify(threads[t], group_members, NoFault)
             IN  /\ a.pc = a0.pc
                 /\ a.rest = a0.rest
                 /\ LogRecord(a) = LogRecord(a0)

\* the claim as written: every command that changes state, the audit log
\* included
C16_Original ==
    /\ SendsAfterWrites
    /\ SameAfterSends(WriteBranches \cup {"broadcast"})

C16_CommitThenNotify ==
    /\ SendsAfterWrites
    /\ SameAfterSends(WriteBranches)

\* a join whose notification to the other member was not delivered and
\* whose audit record is still to be written
C16_Witness ==
    \E t \in Threads :
        /\ threads[t].c.branch = "join"
        /\ At(t, "log")
        /\ threads[t].sent
        /\ threads[t].sent_count = 0
        /\ get_group_members(group_members, NoFault) \ {threads[t].p} # {}
        /\ ActiveIn(group_members, threads[t].p)

(***************************************************************************)
(* The webhook: a GET that verifies the subscription, and a POST that      *)
(* carries messages, is handled in one piece, and may meet store calls     *)
(* that raise and numbers that cannot be reached.                          *)
(***************************************************************************)
\* a request that answers the challenge whatever the token is
webhook_get_any_token(mode, token, challenge, verify_token) ==
    IF verify_token = None \/ verify_token = Some("")
    THEN [status |-> 500, body |-> "VERIFY_TOKEN not configured"]
    ELSE IF mode = Some("subscribe")
    THEN [status |-> 200, body |-> challenge]
    ELSE [status |-> 403, body |-> "Verification failed"]

\* the response to GET /webhook; verify_token is the environment variable
\* VERIFY_TOKEN, None when it is not set
webhook_get(mode, token, challenge, verify_token) ==
    IF verify_token = None \/ verify_token = Some("")
    THEN [status |-> 500, body |-> "VERIFY_TOKEN not configured"]
    ELSE IF mode = Some("subscribe") /\ token = verify_token
    THEN [status |-> 200, body |-> challenge]
    ELSE [status |-> 403, body |-> "Verification failed"]

\* the if/elif chain with the membership gate in it
process_group_inventory_command(inv, gm, log, p, c, env) ==
    IF c.branch = "join" THEN join(inv, gm, log, p, env)
    ELSE IF c.branch = "leave" THEN leave(inv, gm, log, p, env)
    ELSE IF ~is_group_member(gm, p, env) THEN must_join(inv, gm, log)
    ELSE CASE c.branch = "help" -> help(inv, gm, log)
           [] c.branch = "members" -> members(inv, gm, log, env)
           [] c.branch = "broadcast" -> broadcast(inv, gm, log, p, c, env)
           [] c.branch = "reset" -> reset(inv, gm, log, p, env)
           [] c.branch = "remove" -> remove(inv, gm, log, p, c, env)
           [] c.branch = "inventory" -> show_inventory(inv, gm, log, env)
           [] c.branch = "history" -> history(inv, gm, log, env)
           [] c.branch = "add" -> add(inv, gm, log, p, c, env)
           [] c.branch = "sell" -> sell(inv, gm, log, p, c, env)
           [] c.branch = "update" -> update(inv, gm, log, p, c, env)
           [] OTHER -> unknown(inv, gm, log)

\* the numbers that write to the webhook
HookSenders == Senders \cup {"9800000002"}

HookTexts ==
    { W_join,
      W_add \o apple \o <<"=","3">>,
      W_sell \o apple \o <<"=","3">> }

HookCommands == { c \in Commands : c.raw \in HookTexts }

JoinCommand == CHOOSE c \in Commands : c.raw = W_join
AddCommand == CHOOSE c \in Commands : c.raw = W_add \o apple \o <<"=","3">>
SellCommand == CHOOSE c \in Commands : c.raw = W_sell \o apple \o <<"=","3">>

\* one element of value.messages: from is None when the key is missing,
\* is_text is FALSE when text.body is no string
TextMessage(p, c) == [from |-> Some(p), is_text |-> TRUE, c |-> c]
NoFromMessage == [from |-> None, is_text |-> TRUE, c |-> JoinCommand]
NotTextMessage == [from |-> Some(Admin1), is_text |-> FALSE, c |-> NoCommand]

\* the payloads of one message: the admin sends every command, the other
\* numbers join
OneMessage ==
    { <<TextMessage(Admin1, c)>> : c \in HookCommands }
      \cup { <<TextMessage(p, JoinCommand)>> : p \in HookSenders }
      \cup { <<NoFromMessage>>, <<NotTextMessage>> }

\* the payloads of two messages, of which the first may fail
TwoMessages ==
    { <<a, TextMessage(Admin1, JoinCommand)>> :
        a \in { NoFromMessage, NotTextMessage, TextMessage("9800000001", JoinCommand) } }

\* what fails while a request is handled: a store call that raises, or a
\* number that cannot be reached
Failing(f) == [fail |-> {f}, down |-> {}]
Down(p) == [fail |-> {}, down |-> {p}]

\* the requests: every payload without a failure, the admin's add and sell
\* with a store call that raises, and the third number's join while one of
\* the other numbers cannot be reached
PostRequests ==
    { [payload |-> m, env |-> NoFault] : m \in OneMessage \cup TwoMessages }
      \cup { [payload |-> <<TextMessage(Admin1, AddCommand)>>, env |-> Failing(f)] :
               f \in {"get_inventory_item", "update_inventory"} }
      \cup { [payload |-> <<TextMessage(Admin1, SellCommand)>>,
               env |-> Failing("delete_inventory_item")] }
      \cup { [payload |-> <<TextMessage("9800000002", JoinCommand)>>, env |-> Down(p)] :
               p \in Senders }

\* one call of send_whatsapp_message that answers a message: the position
\* of the message in the payload, its sender, the reply and whether the
\* reply was delivered
Handled(i, p, rep, env) ==
    [message |-> i, sender |-> p, reply |-> rep,
     delivered |-> send_whatsapp_message(p, env)]

\* the loop over the messages of a POST from message i on.  st holds the
\* collections, the record of the message handled last and the answers so
\* far.  message['from'] is read outside the inner try: a missing key ends
\* the request in the outer handler with status 500.  Inside the inner try
\* an exception sends the error reply and the loop goes on.
RECURSIVE WebhookLoop(_, _, _, _)
WebhookLoop(messages, i, st, env) ==
    IF i > Len(messages)
    THEN [st EXCEPT !.status = 200, !.body = "OK"]
    ELSE
    LET message == messages[i]
    IN  IF message.from = None
        THEN [st EXCEPT !.status = 500, !.body = "Error"]
        ELSE
        LET sender_number == message.from[1]
            pre == [inventory |-> st.inv, group_members |-> st.gm,
                    inventory_updates |-> st.log]
        IN  IF ~message.is_text
            THEN WebhookLoop(messages, i + 1,
                     [st EXCEPT !.info = [last |-> [sender |-> sender_number,
                                                    cmd |-> message.c],
                                          reply |-> [kind |-> "system_error"],
                                          notified |-> {}, before |-> pre, faults |-> env],
                                !.handled = Append(@, Handled(i, sender_number,
                                                              [kind |-> "system_error"],
                                                              env))],
                     env)
            ELSE
            LET r == process_group_inventory_command(st.inv, st.gm, st.log,
                                                     sender_number, message.c, env)
            IN  WebhookLoop(messages, i + 1,
                    [st EXCEPT !.inv = r.inv, !.gm = r.gm, !.log = r.log,
                               !.info = [last |-> [sender |-> sender_number,
                                                   cmd |-> message.c],
                                         reply |-> r.reply, notified |-> r.to,
                                         before |-> pre, faults |-> env],
                               !.handled = Append(@, Handled(i, sender_number, r.reply, env))],
                    env)

\* the GET requests: the query parameters hub.mode, hub.verify_token and
\* hub.challenge, and the configured VERIFY_TOKEN
GetRequest(mode, token, verify_token) ==
    [mode |-> mode, token |-> token, challenge |-> "test123", verify_token |-> verify_token]

GetRequests ==
    { GetRequest(Some("subscribe"), Some("s3cret"), Some("s3cret")),
      GetRequest(Some("subscribe"), Some("wrong"), Some("s3cret")),
      GetRequest(None, Some("s3cret"), Some("s3cret")),
      GetRequest(Some("subscribe"), Some("s3cret"), None) }

\* the collections as a record
Store == [inventory |-> inventory, group_members |-> group_members,
          inventory_updates |-> inventory_updates]

WebhookGet ==
    \E rq \in GetRequests :
        LET mode == rq.mode
            token == rq.token
            challenge == rq.challenge
            verify_token == rq.verify_token
            r == webhook_get(mode, token, challenge, verify_token)
        IN  /\ http' = [method |-> "GET",
                        request |-> [mode |-> mode, token |-> token,
                                     challenge |-> challenge,
                                     verify_token |-> verify_token],
                        status |-> r.status, body |-> r.body, handled |-> <<>>,
                        pre |-> Store]
            /\ UNCHANGED <<inventory, group_members, inventory_updates, last, reply,
                           notified, before, threads, faults>>

WebhookPost ==
    \E rq \in PostRequests :
        LET st0 == [inv |-> inventory, gm |-> group_members, log |-> inventory_updates,
                    info |-> [last |-> last, reply |-> reply, notified |-> notified,
                              before |-> before, faults |-> faults],
                    handled |-> <<>>, status |-> 0, body |-> ""]
            r == WebhookLoop(rq.payload, 1, st0, rq.env)
        IN  /\ Len(r.log) <= MaxLog
            /\ \A i \in DOMAIN r.inv : r.inv[i] <= MaxQty
            /\ inventory' = r.inv
            /\ group_members' = r.gm
            /\ inventory_updates' = r.log
            /\ last' = r.info.last
            /\ reply' = r.info.reply
            /\ notified' = r.info.notified
            /\ before' = r.info.before
            /\ faults' = r.info.faults
            /\ http' = [method |-> "POST", request |-> rq.payload, status |-> r.status,
                        body |-> r.body, handled |-> r.handled, pre |-> Store]
            /\ UNCHANGED threads

NextHook == WebhookGet \/ WebhookPost

SpecHook == Init /\ [][NextHook]_vars

(***************************************************************************)
(* C17: broadcast_to_group attempts exactly one send to every active       *)
(* member other than the excluded number, goes on with the remaining       *)
(* members when a send fails, and returns the number of the sends that     *)
(* succeeded; the sender of a command is not among those notified of it.   *)
(***************************************************************************)
Active(gm) == { p \in HookSenders : ActiveIn(gm, p) }

\* what a broadcast does in the current membership when exclude is excluded
\* and the numbers in d cannot be reached
BroadcastIsExact(exclude, d) ==
    LET b == broadcast_to_group(group_members, exclude, [fail |-> {}, down |-> d])
        others == Active(group_members) \ {exclude}
    IN  /\ Range(b.attempts) = others
        /\ Len(b.attempts) = Cardinality(others)
        /\ b.sent_count = Cardinality(others \ d)

WithSender(payload) == { i \in DOMAIN payload : payload[i].from # None }

C18_PerMessageIsolation ==
    http.method = "POST" =>
        Len(http.handled) = Cardinality(WithSender(http.request))

(***************************************************************************)
(* C19: a GET to /webhook with hub.mode=subscribe whose verify token       *)
(* equals the configured secret is answered with the challenge as the      *)
(* body; a GET whose token differs from the configured secret is answered  *)
(* with 403; no GET changes inventory, membership or audit records.        *)
(***************************************************************************)
Configured == http.request.verify_token # None

TokenMatches == http.request.token = http.request.verify_token

Challenged == http.status = 200 /\ http.body = http.request.challenge

StoreCallFailed ==
    /\ http.method = "POST"
    /\ WasMember
    /\ \/ /\ last.cmd.branch = "add"
           /\ faults.fail \cap {"get_inventory_item", "update_inventory"} # {}
        \/ /\ last.cmd.branch = "sell"
           /\ "delete_inventory_item" \in faults.fail
           /\ QtyIn(before.inventory, last.cmd.parse.pair.item)
                 = last.cmd.parse.pair.quantity.val

C20_StorageFailureReported ==
    StoreCallFailed =>
        /\ reply.kind \notin {"added", "sold"}
        /\ inventory_updates = before.inventory_updates
        /\ inventory = before.inventory

(***************************************************************************)
(* C21: in a command of several comma-separated pairs, a pair without `=`  *)
(* or whose quantity is no non-negative integer is skipped and every other *)
(* pair, being valid, is applied to the inventory.                         *)
(***************************************************************************)
\* a segment of the form item=q with an integer q >= 0
ValidPair(seg) == IsPair(seg) /\ PairQty(seg) >= 0

C21_MalformedPairSkipped ==
    LET c == last.cmd
        segs == Segments(c)
    IN  ( /\ c.branch = "update"
          /\ WasMember
          /\ Len(segs) > 1 )
        => \A i \in DOMAIN segs :
              ValidPair(segs[i]) => Stock(PairItem(segs[i])) = PairQty(segs[i])

(***************************************************************************)
(* C22: a bulk-set command that sets an item to a quantity <= 0 removes    *)
(* the item's entry, and no entry with a quantity <= 0 is ever stored.     *)
(***************************************************************************)
C22_DeleteOnZeroOrNegative ==
    LET c == last.cmd
        segs == Segments(c)
    IN  /\ \A item \in DOMAIN inventory : inventory[item] > 0
        /\ (c.branch = "update" /\ WasMember)
           => \A i \in DOMAIN segs :
                 (IsPair(segs[i]) /\ PairQty(segs[i]) <= 0)
                    => PairItem(segs[i]) \notin DOMAIN inventory

(***************************************************************************)
(* C23: a message that starts with `add ` or `sell ` is handled as an add  *)
(* or a sell and never as a bulk set: `add apple=3` raises apple by 3 and  *)
(* sets no item to 3, and no stored item name holds the command word.      *)
(***************************************************************************)
\* the replies of the bulk-set branch
BulkSetKinds == {"updated", "must_be_non_negative", "invalid_format"}

\* the item name begins with a command word
NamesCommandWord(item) ==
    StartsWith(item, <<"a","d","d">>) \/ StartsWith(item, <<"s","e","l","l">>)

C23_DispatchTieBreak ==
    LET c == last.cmd
    IN  /\ StartsWith(c.text, W_add) => c.branch = "add"
        /\ StartsWith(c.text, W_sell) => c.branch = "sell"
        /\ (WasMember /\ (StartsWith(c.text, W_add) \/ StartsWith(c.text, W_sell)))
              => reply.kind \notin BulkSetKinds
        /\ (WasMember /\ c.raw = W_add \o apple \o <<"=","3">>)
              => /\ reply.kind = "added"
                 /\ Stock(apple) = StockBefore(apple) + 3
                 /\ \A item \in (DOMAIN inventory) \cup (DOMAIN before.inventory) :
                       item # apple => Stock(item) = StockBefore(item)
        /\ (StartsWith(c.text, W_add) \/ StartsWith(c.text, W_sell))
              => \A item \in (DOMAIN inventory) \ (DOMAIN before.inventory) :
                    ~NamesCommandWord(item)

\* `add apple=3` from a member on {apple: 10, banana: 5} gave {apple: 13, banana: 5}
C23_Witness ==
    /\ last.cmd.raw = W_add \o apple \o <<"=","3">>
    /\ WasMember
    /\ before.inventory = (apple :> 10) @@ (banana :> 5)
    /\ inventory = (apple :> 13) @@ (banana :> 5)

(***************************************************************************)
(* C24: when the reply to an add, sell, bulk-set, remove or reset command  *)
(* is an error reply, the inventory is what it was before the command; a   *)
(* bulk set refused at a later pair has not applied its earlier pairs.     *)
(***************************************************************************)
InventoryCommands == {"add", "sell", "update", "remove", "reset"}

C24_ErrorReplyChangesNothing ==
    (last.cmd.branch \in InventoryCommands /\ reply.kind \notin DoneKinds)
        => inventory = before.inventory

(***************************************************************************)
(* C25: for every message of a POST that has a sender field the handler    *)
(* makes exactly one reply send attempt, addressed to that sender.         *)
(***************************************************************************)
\* the reply sends that answer the message at position i of the payload
AttemptsFor(i) == { k \in DOMAIN http.handled : http.handled[k].message = i }

C25_ExactlyOneReplyAttempt ==
    http.method = "POST" =>
        \A i \in WithSender(http.request) :
            /\ Cardinality(AttemptsFor(i)) = 1
            /\ \A k \in AttemptsFor(i) :
                  http.handled[k].sender = http.request[i].from[1]

(***************************************************************************)
(* C26: a successful reset by an admin who is an active member leaves the  *)
(* inventory empty and the membership table as it was; no command but join *)
(* and leave changes the membership table, and every command leaves the    *)
(* audit records appended before it in place: the log only grows.          *)
(***************************************************************************)
\* the audit records that were there when the message arrived are still
\* there, in front and in the same order
AuditLogGrew ==
    /\ Len(before.inventory_updates) <= Len(inventory_updates)
    /\ SubSeq(inventory_updates, 1, Len(before.inventory_updates))
          = before.inventory_updates

====
